---- MODULE Spec2Model ----
(***************************************************************************)
(* Model of the medical assistant's orchestration engine:                  *)
(*   - the main orchestrator graph (agents/main_orchestrator),             *)
(*   - the patient supervisor sub-graph (agents/patient_supervisor),       *)
(*   - the chat endpoint that starts one run per request (api/main.py),    *)
(*   - the router LLM cache (core/models/llm.py),                          *)
(*   - the MCP tool manager (core/mcp_manager.py).                         *)
(*                                                                         *)
(* Conventions.  A Python str is a sequence of atoms (an f-string is the   *)
(* concatenation of its parts), so "" is <<>>.  An Optional value, or a    *)
(* dictionary key that may be absent, is a sequence of length at most one: *)
(* <<>> is None/absent and <<x>> is the value x.  A node's return value is *)
(* a record of the keys it returns; Merge applies it to the turn state the *)
(* way the graph library does (keys that are no channel are dropped).      *)
(***************************************************************************)
EXTENDS Integers, Sequences, FiniteSets, TLC

\* ------------------------------------------------------------------ bounds
\* Number of chat requests served in one behaviour.
MaxTurns == 2

\* Number of requests the server can have in progress.
MaxRuns == 2

\* Number of start_client / stop_client calls made in one behaviour.
MaxCalls == 3

\* ------------------------------------------------------------- value space
NoneV == <<>>
Some(x) == <<x>>
EmptyText == <<>>

Runs == 1..MaxRuns

\* Session identifiers are strings too.  ClientIds are identifiers a client
\* makes up; uuid4(n) is the n-th value str(uuid.uuid4()) returns.
ClientIds == {<<"s1">>}
uuid4(n) == <<"uuid4", n>>
Sessions == ClientIds \cup {uuid4(n) : n \in 1..MaxTurns}

\* X-User-Role header of a request: absent, or some role name.
RoleHeaders == {NoneV, Some("patient"), Some("doctor"), Some("nurse")}

\* ChatRequest.query values.
Queries == {EmptyText, <<"I have a headache">>}

\* Tasks that call start_client / stop_client, and the configured servers.
Callers == {"c1", "c2"}
Servers == {"scheduler", "records"}

VARIABLES
    st,             \* st[r]: the turn state (AgentState channels) of run r
    pc,             \* pc[r]: the node run r executes next
    sid,            \* sid[r]: the thread_id of run r
    trace,          \* trace[r]: the nodes run r has executed, in order
    llmCalls,       \* llmCalls[r]: chain.invoke calls of the intent router in run r
    ckpt,           \* ckpt[s]: the checkpoint MemorySaver holds for thread s
    llm_instances,  \* the cache entry _llm_instances["router"]
    turns,          \* number of chat requests accepted so far
    response,       \* response[r]: what chat_endpoint answered to run r's request
    gateway,        \* gateway[r]: what the router's classifier did in run r (history)
    analysis,       \* analysis[r]: what the patient analysis chain did in run r (history)
    request,        \* request[r]: the session_id field and cookie of run r's request (history)
    asked,          \* asked[s]: the queries of the requests accepted for thread s (history)
    main_graph,     \* app.state.main_graph: not set yet, the compiled graph, or None
    health,         \* what the last GET /health answered (history)
    loader,         \* load_mcp_config: the file, the process environment, the result
    \* MCPToolManager
    raw_server_configs,     \* _raw_server_configs: server name -> its "disabled" key
    active_server_configs,  \* names of _active_server_configs
    client,                 \* _client: None or the MultiServerMCPClient held
    tools,                  \* _tools
    is_running,             \* _is_running
    lock,                   \* _lock: the caller holding it, or None
    waiters,                \* _lock: the callers waiting for it, first come first
    cpc,                    \* cpc[c]: where caller c is in start_client / stop_client
    clientStatus,           \* clientStatus[k]: what happened to the k-th client (history)
    calls,                  \* the start_client / stop_client calls made so far (history)
    order,                  \* callers in the order they got the lock (history)
    result,                 \* result[c]: how c's last call ended (history)
    lookup                  \* the last get_tools_for_agent call and what it gave (history)

gvars == <<st, pc, sid, trace, llmCalls, ckpt, llm_instances, turns, response,
           gateway, analysis, request, asked, main_graph, health, loader>>

avars == <<main_graph, health, loader>>

rvars == <<raw_server_configs, active_server_configs, client, tools, is_running,
           lock, waiters, cpc, clientStatus, calls, order, result, lookup>>

vars == <<gvars, rvars>>

\* AgentState: the channels the nodes read or write.  No channel has a value
\* before it is first written.
AgentState ==
    [messages |-> <<>>,
     current_input |-> NoneV,
     final_output |-> NoneV,
     user_role |-> NoneV,
     supervisor_name |-> NoneV,
     route_error |-> NoneV,
     patient_response_text |-> NoneV,
     request_scheduling |-> NoneV,
     next_supervisor_required |-> NoneV]

\* The graph library applies a node's returned dict to the channels: a key
\* that names a channel overwrites it, any other key is dropped.
Merge(state, updates) ==
    [k \in DOMAIN state |-> IF k \in DOMAIN updates THEN updates[k] ELSE state[k]]

\* state.get(key, default)
Get(state, key, default) ==
    IF state[key] = NoneV THEN default ELSE state[key][1]

Idle(r) == pc[r] = "idle"

GraphInit ==
    /\ st = [r \in Runs |-> AgentState]
    /\ pc = [r \in Runs |-> "idle"]
    /\ sid = [r \in Runs |-> NoneV]
    /\ trace = [r \in Runs |-> <<>>]
    /\ llmCalls = [r \in Runs |-> 0]
    /\ ckpt = [s \in Sessions |-> AgentState]
    /\ llm_instances = "unset"
    /\ turns = 0
    /\ response = [r \in Runs |-> NoneV]
    /\ gateway = [r \in Runs |-> NoneV]
    /\ analysis = [r \in Runs |-> NoneV]
    /\ request = [r \in Runs |-> NoneV]
    /\ asked = [s \in Sessions |-> <<>>]

\* MCPToolManager.__init__(server_configs)
ManagerInit(server_configs) ==
    /\ raw_server_configs = server_configs
    /\ active_server_configs = {}
    /\ client = NoneV
    /\ tools = <<>>
    /\ lock = NoneV
    /\ waiters = <<>>
    /\ is_running = FALSE
    /\ cpc = [c \in Callers |-> "idle"]
    /\ clientStatus = <<>>
    /\ calls = <<>>
    /\ order = <<>>
    /\ result = [c \in Callers |-> "none"]
    /\ lookup = NoneV

\* ------------------------------------------------------- load_mcp_config
\* Strings are sequences of characters here, since the loader looks at a
\* value's first four characters and cuts them off.
EnvPrefix == <<"e", "n", "v", ":">>

\* The variables the process environment may hold, and what it may hold
\* for each: nothing, the empty string, a value.
EnvNames == {<<"A">>, <<"B">>}

Environments == [EnvNames -> {NoneV, Some(<<>>), Some(<<"x">>)}]

\* A JSON value of an "env" object: a string, or something else (a number,
\* null, a list).
JsonStr(text) == [type |-> "str", val |-> text]

JsonOther == [type |-> "other", val |-> <<>>]

EnvValues ==
    {JsonStr(EnvPrefix \o <<"A">>), JsonStr(EnvPrefix \o <<"B">>), JsonStr(EnvPrefix),
     JsonStr(<<"e", "n", "v">>), JsonStr(<<"E", "N", "V", ":", "A">>),
     JsonStr(<<"x">>), JsonOther}

EnvKeys == {"API_KEY", "MODE"}

\* A server's configuration: its command, and an "env" key that is absent,
\* an object, or something that is no object.
ServerConfs ==
    [command : {<<"c">>}, env : {[kind |-> "absent", items |-> <<>>],
                                [kind |-> "other", items |-> <<>>]}]
        \cup [command : {<<"c">>},
              env : {[kind |-> "dict", items |-> items] :
                        items \in UNION {[keys -> EnvValues] : keys \in SUBSET EnvKeys}}]

\* The configuration file: not there, no JSON, or an object of servers.
ConfigFiles ==
    [kind : {"missing", "invalid"}, config_data : {<<>>}]
        \cup [kind : {"ok"}, config_data : [{"scheduler"} -> ServerConfs]]

\* os.getenv(name)
getenv(environ, name) ==
    IF name \in DOMAIN environ THEN environ[name] ELSE NoneV

\* value.startswith("env:")
startswith_env(text) ==
    Len(text) >= Len(EnvPrefix) /\ SubSeq(text, 1, Len(EnvPrefix)) = EnvPrefix

\* Mutant: an override whose variable is not set is left as it was written.
resolve_env_value_KeepMissing(value, environ) ==
    IF value.type = "str" /\ startswith_env(value.val)
    THEN LET env_var_value ==
                 getenv(environ, SubSeq(value.val, Len(EnvPrefix) + 1, Len(value.val)))
         IN  IF env_var_value = NoneV THEN value ELSE JsonStr(env_var_value[1])
    ELSE value

\* The body of the loop over resolved_conf["env"].items()
resolve_env_value(value, environ) ==
    IF value.type = "str" /\ startswith_env(value.val)
    THEN LET env_var_name == SubSeq(value.val, Len(EnvPrefix) + 1, Len(value.val))
             env_var_value == getenv(environ, env_var_name)
         IN  IF env_var_value = NoneV THEN JsonStr(<<>>) ELSE JsonStr(env_var_value[1])
    ELSE value

resolve_conf(server_conf, environ) ==
    IF server_conf.env.kind = "dict"
    THEN [server_conf EXCEPT !.env.items =
             [key \in DOMAIN server_conf.env.items |->
                 resolve_env_value(server_conf.env.items[key], environ)]]
    ELSE server_conf

\* load_mcp_config(config_path)
load_mcp_config(config_file, environ) ==
    IF config_file.kind # "ok"
    THEN <<>>
    ELSE [server_name \in DOMAIN config_file.config_data |->
             resolve_conf(config_file.config_data[server_name], environ)]

\* The loader runs.
LoadConfig ==
    /\ loader.resolved_servers = NoneV
    /\ loader' = [loader EXCEPT
           !.resolved_servers = Some(load_mcp_config(loader.config_file, loader.environ))]
    /\ UNCHANGED <<st, pc, sid, trace, llmCalls, ckpt, llm_instances, turns, response,
                   gateway, analysis, request, asked, main_graph, health, rvars>>

\* The application state before the lifespan has run (graph = "unset"), or
\* after a startup that built the graph.
AppInit(graph) ==
    /\ main_graph = graph
    /\ health = NoneV
    /\ loader = [config_file |-> [kind |-> "missing", config_data |-> <<>>],
                 environ |-> [name \in EnvNames |-> NoneV],
                 resolved_servers |-> NoneV]

Init ==
    /\ GraphInit
    /\ AppInit("graph")
    /\ ManagerInit([s \in Servers |-> Some(FALSE)])

\* Mutant: an unknown role falls through to the patient router.
route_logic_by_role_DefaultPatient(state) ==
    LET role == Get(state, "user_role", "unknown")
    IN  IF role = "doctor" THEN "doctor_intent_router" ELSE "patient_intent_router"

\* route_logic_by_role: the conditional entry point of the main graph.
route_logic_by_role(state) ==
    LET role == Get(state, "user_role", "unknown")
    IN  IF role = "patient" THEN "patient_intent_router"
        ELSE IF role = "doctor" THEN "doctor_intent_router"
        ELSE "handle_error_node"

\* `a or b` on optional strings: a when it is neither None nor "".
TruthyText(opt) == opt # NoneV /\ opt[1] # EmptyText

\* Mutant: the identifier the request supplies is ignored.
session_id_of_AlwaysFresh(session_id, cookie, fresh) == fresh

\* chat_request.session_id or request.cookies.get("session_id") or str(uuid.uuid4())
session_id_of(session_id, cookie, fresh) ==
    IF TruthyText(session_id) THEN session_id[1]
    ELSE IF TruthyText(cookie) THEN cookie[1]
    ELSE fresh

\* The identifiers earlier responses returned (and set as cookie): those of
\* the threads with more accepted requests than requests still running.
Returned ==
    {s \in Sessions :
        Len(asked[s]) > Cardinality({r \in Runs : ~Idle(r) /\ sid[r] = Some(s)})}

\* The session_id field a request body can carry: absent, empty, an
\* identifier the client made up, or one an earlier response returned.
BodySessionIds ==
    {NoneV, Some(EmptyText)} \cup {Some(s) : s \in ClientIds \cup Returned}

\* The session_id cookie of a request: none, or the one an earlier
\* response set (response.set_cookie).
Cookies == {NoneV} \cup {Some(s) : s \in Returned}

\* Mutant: the input's messages replace the conversation.
ApplyInput_Overwrite(loaded, input) == Merge(loaded, input)

\* The run applies its input to the channels loaded from the checkpoint:
\* messages go through the add_messages reducer (appended), every other key
\* of the input overwrites its channel.
ApplyInput(loaded, input) ==
    [Merge(loaded, input) EXCEPT !.messages = loaded.messages \o input.messages]

\* chat_endpoint up to graph.ainvoke: the graph was built; the role is the X-User-Role header,
\* "patient" without one; the thread is the resolved session id; the run
\* loads the checkpoint of its thread, applies the input and takes the
\* conditional entry edge.
Invoke(r, session_id, cookie, header, query) ==
    /\ main_graph = "graph"
    /\ turns < MaxTurns
    /\ Idle(r)
    /\ LET user_role == Some(Get([h |-> header], "h", "patient"))
           s == session_id_of(session_id, cookie, uuid4(turns + 1))
           initial_state == [messages |-> <<query>>,
                             current_input |-> Some(query),
                             user_role |-> user_role]
           input == ApplyInput(ckpt[s], initial_state)
       IN  /\ st' = [st EXCEPT ![r] = input]
           /\ ckpt' = [ckpt EXCEPT ![s] = input]
           /\ pc' = [pc EXCEPT ![r] = route_logic_by_role(input)]
           /\ sid' = [sid EXCEPT ![r] = Some(s)]
           /\ asked' = [asked EXCEPT ![s] = Append(asked[s], query)]
    /\ request' = [request EXCEPT ![r] = Some([session_id |-> session_id, cookie |-> cookie])]
    /\ trace' = [trace EXCEPT ![r] = <<>>]
    /\ llmCalls' = [llmCalls EXCEPT ![r] = 0]
    /\ turns' = turns + 1
    /\ response' = [response EXCEPT ![r] = NoneV]
    /\ gateway' = [gateway EXCEPT ![r] = NoneV]
    /\ analysis' = [analysis EXCEPT ![r] = NoneV]
    /\ UNCHANGED <<llm_instances, rvars, avars>>

\* A client that sends its next request when the previous one was answered.
ChatInvoke(r, session_id, cookie, header, query) ==
    /\ \A q \in Runs : Idle(q)
    /\ r = 1
    /\ Invoke(r, session_id, cookie, header, query)

\* Clients that do not wait: the requests are served as they come, each by
\* a task of its own.
ChatInvokeConcurrent(r, session_id, cookie, header, query) ==
    /\ r = turns + 1
    /\ Invoke(r, session_id, cookie, header, query)

\* ------------------------------------------------------- graph machinery
\* A conditional edge looks the path function's result up in its path map;
\* a result that is no key of the map raises KeyError out of the run.
Lookup(path_map, key) ==
    IF key # NoneV /\ key[1] \in DOMAIN path_map
    THEN path_map[key[1]]
    ELSE "raised"

\* A node of the main graph finished: its updates are applied, the
\* checkpoint of the thread is written, and the outgoing edge is taken.
NodeDone(r, executed, newState, next) ==
    /\ st' = [st EXCEPT ![r] = newState]
    /\ ckpt' = [ckpt EXCEPT ![sid[r][1]] = newState]
    /\ trace' = [trace EXCEPT ![r] = trace[r] \o executed]
    /\ pc' = [pc EXCEPT ![r] = next]
    /\ UNCHANGED <<rvars, avars>>

\* Mutant: the query is the first message of the conversation.
current_query_First(state) ==
    IF Len(state.messages) > 0 THEN state.messages[1] ELSE EmptyText

\* messages[-1].content if the conversation ends with a HumanMessage, else "".
\* (Every message of the conversation is a HumanMessage: no node writes
\* the messages channel.)
current_query(state) ==
    IF Len(state.messages) > 0 THEN state.messages[Len(state.messages)] ELSE EmptyText

\* ------------------------------------------------------------ get_llm
\* Mutant: a failed construction is not cached, the next call tries again.
get_llm_Retry(cache, initOk) ==
    IF cache = "instance" THEN cache ELSE (IF initOk THEN "instance" ELSE "none")

\* get_llm("router"): the first call constructs the client and caches the
\* instance, or caches None when the construction raises.
get_llm(cache, initOk) ==
    IF cache = "unset" THEN (IF initOk THEN "instance" ELSE "none") ELSE cache

\* ------------------------------------------------------ intent routers
Categories ==
    {"supervisor_patient_general", "supervisor_scheduling",
     "supervisor_doctor_general", "supervisor_summarization",
     "supervisor_image_analysis", "supervisor_db_agent", "handle_error_node"}

\* What chain.invoke does: it raises (gateway unreachable, output that is
\* not JSON, JSON that is no object), or returns an object whose
\* "supervisor" key is absent or names some category.
RouterOutcomes ==
    [kind : {"raise"}, supervisor : {NoneV}]
        \cup [kind : {"resp"}, supervisor : {NoneV} \cup {Some(c) : c \in Categories}]

\* Mutant: the patient router does not accept supervisor_scheduling.
PatientValidSupervisors_NoScheduling ==
    {"supervisor_patient_general", "handle_error_node"}

PatientValidSupervisors ==
    {"supervisor_patient_general", "supervisor_scheduling", "handle_error_node"}

DoctorValidSupervisors ==
    {"supervisor_doctor_general", "supervisor_summarization", "handle_error_node"}

\* str(x) inside an f-string
Str(opt) == IF opt = NoneV THEN "None" ELSE opt[1]

\* Mutant: the returned category is not checked against valid_supervisors.
determine_intent_llm_Unchecked(state, valid_supervisors, llm, o) ==
    IF current_query(state) = EmptyText
    THEN [supervisor_name |-> Some("handle_error_node"),
          route_error |-> Some(<<"No query in state.">>)]
    ELSE IF llm # "instance"
    THEN [supervisor_name |-> Some("handle_error_node"),
          route_error |-> Some(<<"Intent Router init failed.">>)]
    ELSE IF o.kind = "raise"
    THEN [supervisor_name |-> Some("handle_error_node"),
          route_error |-> Some(<<"LLM intent routing failed: ", "<exception>">>)]
    ELSE [supervisor_name |-> o.supervisor]

determine_intent_llm(state, valid_supervisors, llm, o) ==
    IF current_query(state) = EmptyText
    THEN [supervisor_name |-> Some("handle_error_node"),
          route_error |-> Some(<<"No query in state.">>)]
    ELSE IF llm # "instance"
    THEN [supervisor_name |-> Some("handle_error_node"),
          route_error |-> Some(<<"Intent Router init failed.">>)]
    ELSE IF o.kind = "raise"
    THEN [supervisor_name |-> Some("handle_error_node"),
          route_error |-> Some(<<"LLM intent routing failed: ", "<exception>">>)]
    ELSE IF o.supervisor = NoneV \/ o.supervisor[1] \notin valid_supervisors
    THEN [supervisor_name |-> Some("handle_error_node"),
          route_error |-> Some(<<"Invalid routing target for role '",
                                 Str(state.user_role), "': ", Str(o.supervisor)>>)]
    ELSE [supervisor_name |-> o.supervisor]

\* Mutant: the patient router's scheduling edge skips the supervisor.
PatientRouterEdges_SkipScheduling ==
    [supervisor_patient_general |-> "supervisor_patient_general",
     supervisor_scheduling |-> "check_supervisor_handoff",
     handle_error_node |-> "handle_error_node",
     __default__ |-> "handle_error_node"]

PatientRouterEdges ==
    [supervisor_patient_general |-> "supervisor_patient_general",
     supervisor_scheduling |-> "supervisor_scheduling",
     handle_error_node |-> "handle_error_node",
     __default__ |-> "handle_error_node"]

DoctorRouterEdges ==
    [supervisor_doctor_general |-> "supervisor_doctor_general",
     supervisor_summarization |-> "supervisor_summarization",
     supervisor_image_analysis |-> "supervisor_image_analysis",
     handle_error_node |-> "handle_error_node",
     __default__ |-> "handle_error_node"]

IntentRouter(r, node, valid_supervisors, edges, initOk, o) ==
    /\ pc[r] = node
    /\ LET state == st[r]
           hasQuery == current_query(state) # EmptyText
           cache == IF hasQuery THEN get_llm(llm_instances, initOk) ELSE llm_instances
           newState == Merge(state, determine_intent_llm(state, valid_supervisors, cache, o))
       IN  /\ llm_instances' = cache
           /\ llmCalls' = [llmCalls EXCEPT
                  ![r] = IF hasQuery /\ cache = "instance" THEN @ + 1 ELSE @]
           /\ gateway' = [gateway EXCEPT
                  ![r] = IF ~hasQuery THEN NoneV
                         ELSE IF cache # "instance"
                         THEN Some([kind |-> "init_fail", supervisor |-> NoneV])
                         ELSE Some(o)]
           /\ NodeDone(r, <<node>>, newState, Lookup(edges, newState.supervisor_name))
    /\ UNCHANGED <<sid, turns, response, request, asked, analysis>>

\* Mutant: the patient router works with the doctor router's tables.
patient_intent_router_DoctorTables(r) ==
    \E initOk \in BOOLEAN, o \in RouterOutcomes :
        IntentRouter(r, "patient_intent_router", DoctorValidSupervisors,
                     DoctorRouterEdges, initOk, o)

patient_intent_router(r) ==
    \E initOk \in BOOLEAN, o \in RouterOutcomes :
        IntentRouter(r, "patient_intent_router", PatientValidSupervisors,
                     PatientRouterEdges, initOk, o)

doctor_intent_router(r) ==
    \E initOk \in BOOLEAN, o \in RouterOutcomes :
        IntentRouter(r, "doctor_intent_router", DoctorValidSupervisors,
                     DoctorRouterEdges, initOk, o)

\* ------------------------------------------------- placeholder supervisors
\* Mutant: a placeholder supervisor ends the run itself.
Placeholder_ToEnd(r, node, text) ==
    /\ pc[r] = node
    /\ NodeDone(r, <<node>>, Merge(st[r], [final_output |-> Some(<<text>>)]), "END")
    /\ UNCHANGED <<sid, llmCalls, llm_instances, turns, response, request, asked, gateway, analysis>>

Placeholder(r, node, text) ==
    /\ pc[r] = node
    /\ NodeDone(r, <<node>>, Merge(st[r], [final_output |-> Some(<<text>>)]),
                "check_supervisor_handoff")
    /\ UNCHANGED <<sid, llmCalls, llm_instances, turns, response, request, asked, gateway, analysis>>

PlaceholderOutputs ==
    [supervisor_doctor_general |-> "Placeholder: Doctor general query would be handled here.",
     supervisor_scheduling |-> "Placeholder: Scheduling logic would start here.",
     supervisor_summarization |-> "Placeholder: Summarization logic would start here.",
     supervisor_image_analysis |-> "Placeholder: Image analysis logic would start here."]

\* supervisor_doctor_general_placeholder, supervisor_scheduling_placeholder,
\* supervisor_summarization_placeholder, supervisor_image_analysis_placeholder
placeholder_supervisor(r) ==
    \E node \in DOMAIN PlaceholderOutputs :
        Placeholder(r, node, PlaceholderOutputs[node])

\* ------------------------------------------------------ error terminal
\* Mutant: the error terminal answers without the reason.
ErrorOutput_NoReason(reason) == <<"Sorry, I encountered an error.">>

ErrorOutput(reason) == <<"Sorry, I encountered an error. Reason: ">> \o reason

handle_error_node(r) ==
    /\ pc[r] = "handle_error_node"
    /\ LET reason == Get(st[r], "route_error", <<"Unknown processing error">>)
       IN  NodeDone(r, <<"handle_error_node">>,
                    Merge(st[r], [final_output |-> Some(ErrorOutput(reason))]), "END")
    /\ UNCHANGED <<sid, llmCalls, llm_instances, turns, response, request, asked, gateway, analysis>>

\* ------------------------------------------------ patient supervisor graph
\* What the analysis chain does: the client cannot be constructed, the call
\* raises, or it returns a JSON object.  The object's keys are whatever the
\* model wrote: the documented "request_scheduling", and the key the node
\* reads, "reuqest_scheduling".
AnalyzerTexts == {NoneV, Some(EmptyText), Some(<<"Okay, I can help you with scheduling.">>)}

OptBool == {NoneV, Some(TRUE), Some(FALSE)}

AnalyzerOutcomes ==
    [kind : {"init_fail", "raise"}, response_text : {NoneV},
     request_scheduling : {NoneV}, reuqest_scheduling : {NoneV}]
        \cup [kind : {"resp"}, response_text : AnalyzerTexts,
              request_scheduling : OptBool, reuqest_scheduling : OptBool]

analyze_patient_query(state, o) ==
    IF current_query(state) = EmptyText
    THEN [patient_response_text |->
              Some(<<"I'm sorry, I didnt quite catch that. could you please repeat your question?">>),
          request_scheduling |-> Some(FALSE)]
    ELSE IF o.kind = "init_fail"
    THEN [patient_response_text |-> Some(<<"Sorry, I'm having trouble understanding right now">>),
          request_scheuling |-> Some(FALSE)]
    ELSE IF o.kind = "raise"
    THEN [patient_response_text |->
              Some(<<"Sorry I encountered and error while thinking about your request">>),
          request_scheduling |-> Some(FALSE)]
    ELSE [patient_response_text |->
              Some(Get(o, "response_text", <<"I'm not sure how to respond to that">>)),
          request_scheduling |-> Some(Get(o, "reuqest_scheduling", FALSE))]

decide_next_step(state) ==
    IF Get(state, "request_scheduling", FALSE)
    THEN "prepare_for_scheduling"
    ELSE "finish_conversation"

\* The entry node of the sub-graph the main graph runs as its node
\* supervisor_patient_general.  The sub-graph works on the turn state of the
\* run; the checkpoint of the thread is written when the sub-graph ends.
AnalyzePatientQuery(r) ==
    /\ pc[r] = "supervisor_patient_general"
    /\ \E o \in AnalyzerOutcomes :
          LET newState == Merge(st[r], analyze_patient_query(st[r], o))
          IN  /\ st' = [st EXCEPT ![r] = newState]
              /\ pc' = [pc EXCEPT ![r] = decide_next_step(newState)]
              /\ analysis' = [analysis EXCEPT
                     ![r] = IF current_query(st[r]) = EmptyText THEN NoneV ELSE Some(o)]
    /\ trace' = [trace EXCEPT ![r] = trace[r] \o <<"analyze_patient_query">>]
    /\ UNCHANGED <<sid, llmCalls, ckpt, llm_instances, turns, response, request, asked, gateway, rvars, avars>>

prepare_for_scheduling(r) ==
    /\ pc[r] = "prepare_for_scheduling"
    /\ LET response_text == Get(st[r], "patient_response_text", <<"Okay lets look scheduling">>)
       IN  NodeDone(r, <<"prepare_for_scheduling", "supervisor_patient_general">>,
                    Merge(st[r], [final_output |-> Some(response_text),
                                  next_supervisor_required |-> Some("supervisor_scheduling")]),
                    "check_supervisor_handoff")
    /\ UNCHANGED <<sid, llmCalls, llm_instances, turns, response, request, asked, gateway, analysis>>

finish_conversation(r) ==
    /\ pc[r] = "finish_conversation"
    /\ LET response_text == Get(st[r], "patient_response_text", <<"Sorry Im not sure how to respond">>)
       IN  NodeDone(r, <<"finish_conversation", "supervisor_patient_general">>,
                    Merge(st[r], [final_output |-> Some(response_text)]),
                    "check_supervisor_handoff")
    /\ UNCHANGED <<sid, llmCalls, llm_instances, turns, response, request, asked, gateway, analysis>>

\* ---------------------------------------------------------- handoff check
\* Python truthiness of an Optional[str]
Truthy(opt) == opt # NoneV /\ opt[1] # ""

\* Mutant: the handoff check reads the signal and leaves it set.
HandoffUpdates_NoClear(state) == <<>>

HandoffUpdates(state) ==
    IF Truthy(state.next_supervisor_required)
    THEN [next_supervisor_required |-> NoneV]
    ELSE <<>>

\* route_after_handoff_check reads the state the node's updates were applied to.
route_after_handoff_check(state) ==
    IF Truthy(state.next_supervisor_required)
    THEN state.next_supervisor_required
    ELSE Some("output_stage")

\* Mutant: without a handoff the run goes on to the error terminal.
HandoffEdges_NoEnd ==
    [supervisor_scheduling |-> "supervisor_scheduling",
     output_stage |-> "handle_error_node",
     __default__ |-> "handle_error_node"]

HandoffEdges ==
    [supervisor_scheduling |-> "supervisor_scheduling",
     output_stage |-> "END",
     __default__ |-> "handle_error_node"]

check_supervisor_handoff(r) ==
    /\ pc[r] = "check_supervisor_handoff"
    /\ LET newState == Merge(st[r], HandoffUpdates(st[r]))
       IN  NodeDone(r, <<"check_supervisor_handoff">>, newState,
                    Lookup(HandoffEdges, route_after_handoff_check(newState)))
    /\ UNCHANGED <<sid, llmCalls, llm_instances, turns, response, request, asked, gateway, analysis>>

\* ------------------------------------------------------ end of the request
\* chat_endpoint after graph.ainvoke: the response is built from the final
\* state (or the request fails when the run raised) and the run is over.
ChatOutput(final_state) ==
    IF final_state.final_output # NoneV THEN final_state.final_output[1]
    ELSE IF Len(final_state.messages) > 0
    THEN <<"error: could not determine final response">>
    ELSE <<"Sorry, an internal error occurred">>

ChatReturn(r) ==
    /\ pc[r] \in {"END", "raised"}
    /\ response' = [response EXCEPT ![r] =
          IF pc[r] = "END"
          THEN [status |-> 200, response |-> ChatOutput(st[r]), session_id |-> sid[r]]
          ELSE [status |-> 500, response |-> <<"Error processing request ", "<exception>">>,
                session_id |-> NoneV]]
    /\ pc' = [pc EXCEPT ![r] = "idle"]
    /\ st' = [st EXCEPT ![r] = AgentState]
    /\ sid' = [sid EXCEPT ![r] = NoneV]
    /\ trace' = [trace EXCEPT ![r] = <<>>]
    /\ llmCalls' = [llmCalls EXCEPT ![r] = 0]
    /\ gateway' = [gateway EXCEPT ![r] = NoneV]
    /\ analysis' = [analysis EXCEPT ![r] = NoneV]
    /\ request' = [request EXCEPT ![r] = NoneV]
    /\ UNCHANGED <<ckpt, llm_instances, turns, asked, rvars, avars>>

\* The nodes of a run and the end of its request.
Step(r) ==
    \/ patient_intent_router(r)
    \/ doctor_intent_router(r)
    \/ AnalyzePatientQuery(r)
    \/ prepare_for_scheduling(r)
    \/ finish_conversation(r)
    \/ placeholder_supervisor(r)
    \/ check_supervisor_handoff(r)
    \/ handle_error_node(r)
    \/ ChatReturn(r)

Next ==
    \E r \in Runs :
        \/ \E session_id \in BodySessionIds, cookie \in Cookies,
              header \in RoleHeaders, query \in Queries :
              ChatInvoke(r, session_id, cookie, header, query)
        \/ Step(r)

Spec == Init /\ [][Next]_vars

\* Every run that has work to do is scheduled: the event loop runs each
\* pending task, and a node's collaborator call returns or fails.
FairSpec == Spec /\ \A r \in Runs : WF_vars(Step(r))

\* ------------------------------------------------------ classifier cache
\* clear_llm_instances(): the cache is emptied.
clear_llm_instances ==
    /\ llm_instances' = "unset"
    /\ UNCHANGED <<st, pc, sid, trace, llmCalls, ckpt, turns, response, gateway,
                   analysis, request, asked, rvars, avars>>

\* The service in a process where the cache can be cleared at any time.
NextLlm == Next \/ clear_llm_instances

SpecLlm == Init /\ [][NextLlm]_vars

\* ------------------------------------------------------------------ faults
\* graph.ainvoke raises an exception no node caught (the checkpointer, the
\* graph library): the run stops where it is, with what it persisted so far.
ainvoke_raises(r) ==
    /\ pc[r] \notin {"idle", "END", "raised", "cancelled"}
    /\ pc' = [pc EXCEPT ![r] = "raised"]
    /\ UNCHANGED <<st, sid, trace, llmCalls, ckpt, llm_instances, turns, response,
                   gateway, analysis, request, asked, rvars, avars>>

\* The request's task is cancelled while the router waits in chain.invoke:
\* CancelledError is no Exception, so neither the router's `except Exception`
\* nor chat_endpoint's catches it.
cancel_at_gateway(r) ==
    /\ pc[r] \in {"patient_intent_router", "doctor_intent_router"}
    /\ current_query(st[r]) # EmptyText
    /\ get_llm(llm_instances, TRUE) = "instance"
    /\ llm_instances' = "instance"
    /\ llmCalls' = [llmCalls EXCEPT ![r] = @ + 1]
    /\ gateway' = [gateway EXCEPT ![r] = Some([kind |-> "cancelled", supervisor |-> NoneV])]
    /\ pc' = [pc EXCEPT ![r] = "cancelled"]
    /\ UNCHANGED <<st, sid, trace, ckpt, turns, response, analysis, request, asked, rvars, avars>>

\* The cancellation leaves chat_endpoint: no response is built.
ChatCancelled(r) ==
    /\ pc[r] = "cancelled"
    /\ pc' = [pc EXCEPT ![r] = "idle"]
    /\ st' = [st EXCEPT ![r] = AgentState]
    /\ sid' = [sid EXCEPT ![r] = NoneV]
    /\ trace' = [trace EXCEPT ![r] = <<>>]
    /\ llmCalls' = [llmCalls EXCEPT ![r] = 0]
    /\ gateway' = [gateway EXCEPT ![r] = NoneV]
    /\ analysis' = [analysis EXCEPT ![r] = NoneV]
    /\ request' = [request EXCEPT ![r] = NoneV]
    /\ UNCHANGED <<ckpt, llm_instances, turns, response, asked, rvars, avars>>

\* The service in an environment where a run can fail or be cancelled.
NextFaults ==
    \/ Next
    \/ \E r \in Runs :
          \/ ainvoke_raises(r)
          \/ cancel_at_gateway(r)
          \/ ChatCancelled(r)

SpecFaults == Init /\ [][NextFaults]_vars

\* The same service with requests that overlap.
NextConcurrent ==
    \E r \in Runs :
        \/ \E session_id \in BodySessionIds, cookie \in Cookies,
              header \in RoleHeaders, query \in Queries :
              ChatInvokeConcurrent(r, session_id, cookie, header, query)
        \/ Step(r)

SpecConcurrent == Init /\ [][NextConcurrent]_vars

\* ========================================================= MCPToolManager
\* start_client and stop_client are coroutines on one event loop: a caller
\* runs alone from one await to the next.  The awaits are the lock, the
\* client's __aenter__, asyncio.sleep and the client's __aexit__.

\* Mutant: the "disabled" key is ignored.
ActiveServers_All(configs) == DOMAIN configs

\* config.get("disabled", False)
ActiveServers(configs) ==
    {name \in DOMAIN configs : ~(configs[name] # NoneV /\ configs[name][1])}

ServerTools ==
    [scheduler |-> <<"book_appointment", "lookup">>,
     records |-> <<"lookup">>]

\* What client.get_tools() can return for the connected servers: their
\* tools, or nothing.
GetToolsResults(active) ==
    {<<>>,
     (IF "scheduler" \in active THEN ServerTools.scheduler ELSE <<>>)
         \o (IF "records" \in active THEN ServerTools.records ELSE <<>>)}

\* asyncio.Lock.acquire returns at once when the lock is free and nobody
\* waits for it; otherwise the caller queues.
LockFree == lock = NoneV /\ waiters = <<>>

\* Mutant: start_client does not look at _is_running.
AlreadyRunning_Never == FALSE

\* `if self._is_running` at the top of start_client
AlreadyRunning == is_running

Return(c, how) ==
    /\ lock' = NoneV
    /\ cpc' = [cpc EXCEPT ![c] = "idle"]
    /\ result' = [result EXCEPT ![c] = how]

\* Mutant: the clean-up forgets the running flag.
Reset_KeepsRunning ==
    /\ client' = NoneV
    /\ tools' = <<>>
    /\ UNCHANGED is_running

\* except-branch tail and stop_client's finally
Reset ==
    /\ client' = NoneV
    /\ tools' = <<>>
    /\ is_running' = FALSE

Mark(status) == [clientStatus EXCEPT ![client[1]] = status]

\* start_client from the lock to its first await (or to its return).
StartBody(c, ctorOk) ==
    IF AlreadyRunning
    THEN /\ Return(c, "already")
         /\ UNCHANGED <<active_server_configs, client, tools, is_running, clientStatus>>
    ELSE LET active == ActiveServers(raw_server_configs)
         IN  /\ active_server_configs' = active
             /\ IF active = {}
                THEN Reset /\ Return(c, "no_servers") /\ UNCHANGED clientStatus
                ELSE IF ctorOk
                THEN /\ client' = Some(Len(clientStatus) + 1)
                     /\ clientStatus' = Append(clientStatus, "created")
                     /\ lock' = Some(c)
                     /\ cpc' = [cpc EXCEPT ![c] = "start_aenter"]
                     /\ UNCHANGED <<tools, is_running, result>>
                ELSE IF client # NoneV
                THEN /\ lock' = Some(c)
                     /\ cpc' = [cpc EXCEPT ![c] = "start_cleanup"]
                     /\ UNCHANGED <<client, tools, is_running, clientStatus, result>>
                ELSE Reset /\ Return(c, "failed") /\ UNCHANGED clientStatus

\* stop_client from the lock to its await (or to its return).
StopBody(c) ==
    /\ IF ~is_running \/ client = NoneV
       THEN Return(c, "not_running")
       ELSE /\ lock' = Some(c)
            /\ cpc' = [cpc EXCEPT ![c] = "stop_aexit"]
            /\ UNCHANGED result
    /\ UNCHANGED <<active_server_configs, client, tools, is_running, clientStatus>>

Busy == \E c \in Callers : cpc[c] # "idle"

Call(c, op) ==
    /\ cpc[c] = "idle"
    /\ Len(calls) < MaxCalls
    /\ calls' = Append(calls, [op |-> op, caller |-> c, inflight |-> Busy])

Queue(c, where) ==
    /\ waiters' = Append(waiters, c)
    /\ cpc' = [cpc EXCEPT ![c] = where]
    /\ UNCHANGED <<active_server_configs, client, tools, is_running, lock,
                   clientStatus, order, result>>

start_client(c) ==
    /\ Call(c, "start")
    /\ IF LockFree
       THEN /\ \E ctorOk \in BOOLEAN : StartBody(c, ctorOk)
            /\ order' = Append(order, c)
            /\ UNCHANGED waiters
       ELSE Queue(c, "start_lock")
    /\ UNCHANGED <<raw_server_configs, lookup, gvars>>

stop_client(c) ==
    /\ Call(c, "stop")
    /\ IF LockFree
       THEN /\ StopBody(c)
            /\ order' = Append(order, c)
            /\ UNCHANGED waiters
       ELSE Queue(c, "stop_lock")
    /\ UNCHANGED <<raw_server_configs, lookup, gvars>>

\* The lock was released and the first waiter gets it.
lock_acquired(c) ==
    /\ cpc[c] \in {"start_lock", "stop_lock"}
    /\ lock = NoneV
    /\ waiters # <<>> /\ Head(waiters) = c
    /\ waiters' = Tail(waiters)
    /\ order' = Append(order, c)
    /\ IF cpc[c] = "start_lock"
       THEN \E ctorOk \in BOOLEAN : StartBody(c, ctorOk)
       ELSE StopBody(c)
    /\ UNCHANGED <<raw_server_configs, calls, lookup, gvars>>

\* await self._client.__aenter__() returns or raises.
aenter_done(c) ==
    /\ cpc[c] = "start_aenter"
    /\ \E ok \in BOOLEAN :
          IF ok
          THEN /\ is_running' = TRUE
               /\ clientStatus' = Mark("entered")
               /\ cpc' = [cpc EXCEPT ![c] = "start_sleep"]
          ELSE /\ clientStatus' = Mark("enter_failed")
               /\ cpc' = [cpc EXCEPT ![c] = "start_cleanup"]
               /\ UNCHANGED is_running
    /\ UNCHANGED <<raw_server_configs, active_server_configs, client, tools, lock,
                   waiters, calls, order, result, lookup, gvars>>

\* asyncio.sleep(10) is over; get_tools() returns the tools or raises.
sleep_done(c) ==
    /\ cpc[c] = "start_sleep"
    /\ \/ \E got \in GetToolsResults(active_server_configs) :
             /\ tools' = got
             /\ Return(c, "up")
       \/ /\ cpc' = [cpc EXCEPT ![c] = "start_cleanup"]
          /\ UNCHANGED <<tools, lock, result>>
    /\ UNCHANGED <<raw_server_configs, active_server_configs, client, is_running,
                   waiters, clientStatus, calls, order, lookup, gvars>>

\* The __aexit__ of the except branch returns or raises; both end the call.
cleanup_done(c) ==
    /\ cpc[c] = "start_cleanup"
    /\ \E ok \in BOOLEAN :
          clientStatus' = Mark(IF clientStatus[client[1]] # "entered" THEN "aborted"
                               ELSE IF ok THEN "exited" ELSE "exit_failed")
    /\ Reset
    /\ Return(c, "failed")
    /\ UNCHANGED <<raw_server_configs, active_server_configs, waiters, calls, order, lookup, gvars>>

\* Mutant: the fields are reset after __aexit__ inside the try block, so a
\* failing shutdown skips the reset.
stop_done_NoFinally(c) ==
    /\ cpc[c] = "stop_aexit"
    /\ \E ok \in BOOLEAN :
          /\ clientStatus' = Mark(IF ok THEN "exited" ELSE "exit_failed")
          /\ IF ok THEN Reset ELSE UNCHANGED <<client, tools, is_running>>
    /\ Return(c, "stopped")
    /\ UNCHANGED <<raw_server_configs, active_server_configs, waiters, calls, order, lookup, gvars>>

\* stop_client's __aexit__ returns or raises; the finally block runs.
stop_done(c) ==
    /\ cpc[c] = "stop_aexit"
    /\ \E ok \in BOOLEAN :
          clientStatus' = Mark(IF ok THEN "exited" ELSE "exit_failed")
    /\ Reset
    /\ Return(c, "stopped")
    /\ UNCHANGED <<raw_server_configs, active_server_configs, waiters, calls, order, lookup, gvars>>

ManagerNext ==
    \E c \in Callers :
        \/ start_client(c)
        \/ stop_client(c)
        \/ lock_acquired(c)
        \/ aenter_done(c)
        \/ sleep_done(c)
        \/ cleanup_done(c)
        \/ stop_done(c)

\* The task that runs start_client is cancelled while it waits in
\* asyncio.sleep(10): CancelledError is no Exception, so the except branch
\* is skipped and `async with` releases the lock on the way out.
start_cancelled(c) ==
    /\ cpc[c] = "start_sleep"
    /\ Return(c, "cancelled")
    /\ UNCHANGED <<raw_server_configs, active_server_configs, client, tools, is_running,
                   waiters, clientStatus, calls, order, lookup, gvars>>

\* ------------------------------------------------------------ tool lookup
Range(seq) == {seq[i] : i \in DOMAIN seq}

\* get_all_tools()
get_all_tools == IF ~is_running THEN <<>> ELSE tools

\* required_tool_names of a call: None, or a list of names.
ToolFilters ==
    {NoneV, Some(<<>>), Some(<<"nonexistent">>), Some(<<"lookup">>),
     Some(<<"lookup", "nonexistent">>), Some(<<"lookup", "lookup">>)}

\* get_tools_for_agent(required_tool_names): the tools returned, whether the
\* warning was logged, and the names the warning lists.
get_tools_for_agent(required_tool_names) ==
    LET all_tools == get_all_tools
        required == IF required_tool_names = NoneV THEN <<>> ELSE required_tool_names[1]
        InRequired(name) == name \in Range(required)
        agent_tools == SelectSeq(all_tools, InRequired)
        warned == Len(agent_tools) # Len(required)
    IN  IF required = <<>>
        THEN [returned |-> all_tools, warned |-> FALSE, missing |-> {}]
        ELSE [returned |-> agent_tools, warned |-> warned,
              missing |-> IF warned THEN Range(required) \ Range(agent_tools) ELSE {}]

\* Some agent asks the manager for its tools; the call is synchronous.
tools_for_agent(required_tool_names) ==
    /\ lookup' = Some([required |-> required_tool_names,
                       answer |-> get_tools_for_agent(required_tool_names)])
    /\ UNCHANGED <<raw_server_configs, active_server_configs, client, tools, is_running,
                   lock, waiters, cpc, clientStatus, calls, order, result, gvars>>

\* Any configuration file: each server is enabled (no "disabled" key) or disabled.
InitManager ==
    /\ GraphInit
    /\ AppInit("graph")
    /\ \E configs \in [Servers -> {NoneV, Some(TRUE)}] : ManagerInit(configs)

SpecManager == InitManager /\ [][ManagerNext]_vars

\* The manager together with the agents that look tools up.
ToolsNext ==
    \/ ManagerNext
    \/ \E required_tool_names \in ToolFilters : tools_for_agent(required_tool_names)

SpecTools == InitManager /\ [][ToolsNext]_vars

\* The manager with callers whose task can be cancelled.
CancelNext ==
    \/ ManagerNext
    \/ \E c \in Callers : start_cancelled(c)

SpecCancel == InitManager /\ [][CancelNext]_vars


\* ============================================================ application
\* The task that runs the lifespan is the manager's caller c1.
lifespan == "c1"

\* lifespan: await app.state.tool_manager.start_client()
lifespan_start_client ==
    /\ main_graph = "unset"
    /\ calls = <<>>
    /\ start_client(lifespan)

\* start_client raises before its try block (an entry of the configuration
\* that is no object makes config.get fail); the lifespan logs it.
start_client_raises ==
    /\ main_graph = "unset"
    /\ calls = <<>>
    /\ calls' = Append(calls, [op |-> "start", caller |-> lifespan, inflight |-> FALSE])
    /\ order' = Append(order, lifespan)
    /\ result' = [result EXCEPT ![lifespan] = "raised"]
    /\ UNCHANGED <<raw_server_configs, active_server_configs, client, tools, is_running,
                   lock, waiters, cpc, clientStatus, lookup, gvars>>

\* lifespan: start_client has returned or raised; build_main_orchestrator_graph()
\* returns the graph, or raises and main_graph is None.
build_main_graph ==
    /\ main_graph = "unset"
    /\ calls # <<>>
    /\ cpc[lifespan] = "idle"
    /\ \E built \in BOOLEAN : main_graph' = IF built THEN "graph" ELSE "none"
    /\ UNCHANGED <<st, pc, sid, trace, llmCalls, ckpt, llm_instances, turns, response,
                   gateway, analysis, request, asked, health, loader, rvars>>

\* Mutant: the graph is reported loaded only while the registry runs.
HealthReport_Masked ==
    [status |-> "ok",
     mcp_client |-> IF is_running THEN "running" ELSE "stopped",
     main_graph |-> IF main_graph = "graph" /\ is_running THEN "loaded" ELSE "not loaded"]

\* What health_check returns.
HealthReport ==
    [status |-> "ok",
     mcp_client |-> IF is_running THEN "running" ELSE "stopped",
     main_graph |-> IF main_graph = "graph" THEN "loaded" ELSE "not loaded"]

\* GET /health, served once the lifespan has yielded.
health_check ==
    /\ main_graph # "unset"
    /\ health' = Some(HealthReport)
    /\ UNCHANGED <<st, pc, sid, trace, llmCalls, ckpt, llm_instances, turns, response,
                   gateway, analysis, request, asked, main_graph, loader, rvars>>

\* POST /chat when the graph could not be built.
chat_unavailable(r) ==
    /\ main_graph = "none"
    /\ turns < MaxTurns
    /\ Idle(r)
    /\ response' = [response EXCEPT ![r] =
          [status |-> 500, response |-> <<"Agent orchestrator is unavailable">>,
           session_id |-> NoneV]]
    /\ turns' = turns + 1
    /\ UNCHANGED <<st, pc, sid, trace, llmCalls, ckpt, llm_instances,
                   gateway, analysis, request, asked, avars, rvars>>

\* The first chat request after the startup.
FirstChat(r, session_id, cookie, header, query) ==
    /\ turns = 0
    /\ ChatInvoke(r, session_id, cookie, header, query)

AppNext ==
    \/ lifespan_start_client
    \/ start_client_raises
    \/ aenter_done(lifespan)
    \/ sleep_done(lifespan)
    \/ cleanup_done(lifespan)
    \/ build_main_graph
    \/ health_check
    \/ \E r \in Runs :
          \/ \E session_id \in BodySessionIds, cookie \in Cookies,
                header \in RoleHeaders, query \in Queries :
                FirstChat(r, session_id, cookie, header, query)
          \/ Step(r)
          \/ chat_unavailable(r)

InitApp ==
    /\ GraphInit
    /\ AppInit("unset")
    /\ \E configs \in [Servers -> {NoneV, Some(TRUE)}] : ManagerInit(configs)

\* The loader on any configuration file in any process environment.
InitConfig ==
    /\ GraphInit
    /\ main_graph = "unset"
    /\ health = NoneV
    /\ \E config_file \in ConfigFiles, environ \in Environments :
          loader = [config_file |-> config_file, environ |-> environ,
                    resolved_servers |-> NoneV]
    /\ ManagerInit([s \in Servers |-> Some(FALSE)])

SpecConfig == InitConfig /\ [][LoadConfig]_vars

\* The application from the start of its lifespan.
SpecApp == InitApp /\ [][AppNext]_vars

\* ================================================================ claims
InTrace(r, node) == \E i \in DOMAIN trace[r] : trace[r][i] = node

LastNode(r) == IF trace[r] = <<>> THEN "none" ELSE trace[r][Len(trace[r])]

Names(text, atom) == \E i \in DOMAIN text : text[i] = atom

NonEmptyText(opt) == opt # NoneV /\ opt[1] # EmptyText

ThreadOf(r) == sid[r][1]

\* C1 (as claimed): a run in which prepare_for_scheduling left
\* next_supervisor_required = "supervisor_scheduling" does not end before
\* supervisor_scheduling has run: handoff-check is followed by that node.
C1_HandoffReachesScheduling ==
    \A r \in Runs :
        (pc[r] = "END" /\ InTrace(r, "prepare_for_scheduling"))
            => InTrace(r, "supervisor_scheduling")

\* C2: consume-once.  Right after handoff-check has executed the signal is
\* null; a run that has ended holds a null signal and has persisted a null
\* signal; and a signal handoff-check finds set was set by a supervisor of
\* the same run, never loaded from the checkpoint of an earlier run.
C2_ConsumeOnce ==
    \A r \in Runs :
        /\ LastNode(r) = "check_supervisor_handoff"
              => st[r].next_supervisor_required = NoneV
        /\ pc[r] = "END"
              => /\ st[r].next_supervisor_required = NoneV
                 /\ ckpt[ThreadOf(r)].next_supervisor_required = NoneV
        /\ (pc[r] # "idle" /\ st[r].next_supervisor_required # NoneV)
              => LastNode(r) = "supervisor_patient_general"

C2_Witness ==
    \E r \in Runs :
        /\ pc[r] = "END"
        /\ InTrace(r, "prepare_for_scheduling")
        /\ LastNode(r) = "check_supervisor_handoff"

\* C3: a run whose user_role is neither "patient" nor "doctor" executes the
\* error terminal and nothing else, calls no classifier, and ends with a
\* non-empty final_output.
KnownRoles == {Some("patient"), Some("doctor")}

C3_UnknownRoleToErrorTerminal ==
    \A r \in Runs :
        (pc[r] # "idle" /\ st[r].user_role \notin KnownRoles)
            => /\ pc[r] \in {"handle_error_node", "END"}
               /\ trace[r] = (IF pc[r] = "END" THEN <<"handle_error_node">> ELSE <<>>)
               /\ llmCalls[r] = 0
               /\ gateway[r] = NoneV
               /\ pc[r] = "END" => NonEmptyText(st[r].final_output)

C3_Witness ==
    \E r \in Runs :
        /\ pc[r] = "END"
        /\ st[r].user_role = Some("nurse")
        /\ LastNode(r) = "handle_error_node"
        /\ NonEmptyText(st[r].final_output)

\* The classifier returned a category in run r and the router has just run.
Classified(r, router) ==
    /\ LastNode(r) = router
    /\ gateway[r] # NoneV
    /\ gateway[r][1].kind = "resp"

\* C4 (as claimed): for role doctor the router dispatches each of
\* supervisor_doctor_general, supervisor_summarization and
\* supervisor_image_analysis to the node of that name, and any other
\* classifier result to the error terminal.
DoctorSupervisors ==
    {"supervisor_doctor_general", "supervisor_summarization", "supervisor_image_analysis"}

C4_DoctorDispatch ==
    \A r \in Runs :
        Classified(r, "doctor_intent_router")
            => LET c == gateway[r][1].supervisor
               IN  IF c # NoneV /\ c[1] \in DoctorSupervisors
                   THEN pc[r] = c[1]
                   ELSE pc[r] = "handle_error_node"

\* C5: for role patient the router dispatches supervisor_patient_general and
\* supervisor_scheduling to the node of that name, and any other classifier
\* result (another category, no category, a failed call) to the error terminal.
PatientSupervisors == {"supervisor_patient_general", "supervisor_scheduling"}

C5_PatientDispatch ==
    \A r \in Runs :
        (LastNode(r) = "patient_intent_router" /\ gateway[r] # NoneV)
            => LET c == gateway[r][1].supervisor
               IN  IF c # NoneV /\ c[1] \in PatientSupervisors
                   THEN pc[r] = c[1]
                   ELSE pc[r] = "handle_error_node"

C5_Witness ==
    \E r \in Runs :
        /\ Classified(r, "patient_intent_router")
        /\ gateway[r][1].supervisor = Some("supervisor_scheduling")
        /\ pc[r] = "supervisor_scheduling"

\* The caller-supplied allowed set of the router that ran in run r.
AllowedIn(r) ==
    IF st[r].user_role = Some("patient") THEN PatientValidSupervisors
    ELSE DoctorValidSupervisors

\* The classifier gateway failed in run r: no client, the call raised (which
\* covers a malformed response), no "supervisor" in the response, or a
\* category outside the allowed set.
GatewayFailed(r) ==
    /\ gateway[r] # NoneV
    /\ \/ gateway[r][1].kind \in {"init_fail", "raise"}
       \/ gateway[r][1].supervisor = NoneV
       \/ gateway[r][1].supervisor[1] \notin AllowedIn(r)

C6_Diagnostic(r) ==
    LET g == gateway[r][1]
    IN  IF g.kind = "init_fail" THEN <<"Intent Router init failed.">>
        ELSE IF g.kind = "raise" THEN <<"LLM intent routing failed: ", "<exception>">>
        ELSE <<"Invalid routing target for role '", st[r].user_role[1], "': ",
               (IF g.supervisor = NoneV THEN "None" ELSE g.supervisor[1])>>

DoctorRunEndedWith(r, c) ==
    /\ pc[r] = "END"
    /\ st[r].user_role = Some("doctor")
    /\ gateway[r] # NoneV
    /\ gateway[r][1].kind = "resp"
    /\ gateway[r][1].supervisor = Some(c)

SubGraphEnded(r) == LastNode(r) = "supervisor_patient_general"

\* C8 (as claimed): when the generator answers request_scheduling = true the
\* sub-workflow ends in prepare_for_scheduling with next_supervisor_required
\* = "supervisor_scheduling" and a non-empty final_output equal to the
\* answer's response_text; when it answers false the sub-workflow ends in
\* finish_conversation with next_supervisor_required null.
C8_SchedulingRequestHandsOff ==
    \A r \in Runs :
        (SubGraphEnded(r) /\ analysis[r] # NoneV /\ analysis[r][1].kind = "resp")
            => LET o == analysis[r][1]
               IN  /\ o.request_scheduling = Some(TRUE)
                      => /\ InTrace(r, "prepare_for_scheduling")
                         /\ st[r].next_supervisor_required = Some("supervisor_scheduling")
                         /\ NonEmptyText(st[r].final_output)
                         /\ st[r].final_output = o.response_text
                   /\ o.request_scheduling = Some(FALSE)
                      => /\ InTrace(r, "finish_conversation")
                         /\ st[r].next_supervisor_required = NoneV

Apologies ==
    {<<"I'm sorry, I didnt quite catch that. could you please repeat your question?">>,
     <<"Sorry, I'm having trouble understanding right now">>,
     <<"Sorry I encountered and error while thinking about your request">>}

\* C9 (as claimed): when the analyze step finds no user input, cannot set up
\* the collaborator, or the collaborator call fails, it raises nothing and
\* leaves patient_response_text a fixed apology and request_scheduling false.
C9_AnalyzeFallbackResetsScheduling ==
    \A r \in Runs :
        (/\ LastNode(r) = "analyze_patient_query"
         /\ \/ analysis[r] = NoneV
            \/ analysis[r][1].kind \in {"init_fail", "raise"})
            => /\ pc[r] # "raised"
               /\ st[r].patient_response_text # NoneV
               /\ st[r].patient_response_text[1] \in Apologies
               /\ Get(st[r], "request_scheduling", FALSE) = FALSE

\* ------------------------------------------------------ MCPToolManager
InBody(c) == cpc[c] \in {"start_aenter", "start_sleep", "start_cleanup", "stop_aexit"}

\* The clients whose __aenter__ succeeded.
BroughtUp ==
    {k \in DOMAIN clientStatus : clientStatus[k] \in {"entered", "exited", "exit_failed"}}

\* Only one caller at a time is between taking and releasing the lock.
OneAtATime ==
    \A c, d \in Callers : (InBody(c) /\ InBody(d)) => (c = d /\ lock = Some(c))

\* Two start() calls were made on the stopped registry, the second while the
\* first was in flight, at least one server is active, and both have returned.
TwoConcurrentStartsDone ==
    /\ Len(calls) = 2
    /\ calls[1].op = "start" /\ calls[2].op = "start"
    /\ calls[2].inflight
    /\ ActiveServers(raw_server_configs) # {}
    /\ \A c \in Callers : cpc[c] = "idle"

\* C10 (as claimed): the second of two concurrent start() calls waits for the
\* first, and the provider group is brought up exactly once.
C10_StartedExactlyOnce ==
    /\ OneAtATime
    /\ TwoConcurrentStartsDone => Cardinality(BroughtUp) = 1

\* C10 (amended): the second caller waits for the first; when the first
\* caller's start succeeds the provider group is brought up exactly once and
\* the second call does nothing, and when the first caller's start fails the
\* second caller makes an attempt of its own.
C10_StartedOnceWhenFirstSucceeds ==
    /\ OneAtATime
    /\ (TwoConcurrentStartsDone /\ result[order[1]] = "up")
          => /\ Cardinality(BroughtUp) = 1
             /\ result[order[2]] = "already"
    /\ (TwoConcurrentStartsDone /\ result[order[1]] = "failed")
          => result[order[2]] \in {"up", "failed"}

C10_Witness ==
    /\ TwoConcurrentStartsDone
    /\ result[order[1]] = "up"
    /\ result[order[2]] = "already"
    /\ Cardinality(BroughtUp) = 1

\* The caller that got the lock last; it has returned when the lock is free.
LastHolder == order[Len(order)]

\* The registry is stopped: is_running() false, no client, no tools.
Stopped == ~is_running /\ client = NoneV /\ tools = <<>>

\* __aexit__ was called on the k-th client.
ShutDown(k) == clientStatus[k] \in {"aborted", "exited", "exit_failed"}

\* C11: when start() has returned after a failure of the bring-up (the client
\* could not be created, __aenter__ raised, or get_tools raised), the
\* registry is stopped and every client that was created has been shut down.
C11_FailedStartLeavesStopped ==
    (order # <<>> /\ lock = NoneV /\ result[LastHolder] = "failed")
        => /\ Stopped
           /\ \A k \in DOMAIN clientStatus : ShutDown(k)

C11_Witness ==
    /\ order # <<>> /\ lock = NoneV /\ result[LastHolder] = "failed"
    /\ clientStatus # <<>>
    /\ clientStatus[Len(clientStatus)] = "exit_failed"
    /\ Stopped

\* The registry's lifecycle state.
Lifecycle ==
    IF \E c \in Callers : cpc[c] \in {"start_aenter", "start_sleep", "start_cleanup"}
    THEN "starting"
    ELSE IF \E c \in Callers : cpc[c] = "stop_aexit" THEN "stopping"
    ELSE IF is_running THEN "running"
    ELSE "stopped"

\* In this step caller c gets the lock for a call of op.
Acquires(c, op) ==
    /\ order' = Append(order, c)
    /\ \/ cpc[c] = op \o "_lock"
       \/ cpc[c] = "idle" /\ calls' # calls /\ calls'[Len(calls')].op = op

ManagerUnchanged ==
    UNCHANGED <<client, tools, is_running, clientStatus>>

\* start() on a running registry and stop() on a stopped one return at once
\* and change nothing.
NoOpCalls ==
    \A c \in Callers :
        /\ (Acquires(c, "start") /\ is_running)
              => (ManagerUnchanged /\ cpc'[c] = "idle" /\ Lifecycle' = "running")
        /\ (Acquires(c, "stop") /\ Stopped)
              => (ManagerUnchanged /\ cpc'[c] = "idle" /\ Lifecycle' = "stopped")

ClaimedTransitions ==
    {<<"stopped", "starting">>, <<"starting", "running">>,
     <<"running", "stopping">>, <<"stopping", "stopped">>}

\* C12 (as claimed): the lifecycle state changes only along stopped ->
\* starting -> running and running -> stopping -> stopped; start() on a
\* running registry and stop() on a stopped registry change nothing.
C12_LifecycleTransitions ==
    [][/\ (Lifecycle' # Lifecycle => <<Lifecycle, Lifecycle'>> \in ClaimedTransitions)
       /\ NoOpCalls]_vars

\* C12 (amended): the same, with the one further transition starting ->
\* stopped, taken when the bring-up fails.
C12_LifecycleTransitionsWithRollback ==
    [][/\ (Lifecycle' # Lifecycle
              => <<Lifecycle, Lifecycle'>> \in
                     ClaimedTransitions \cup {<<"starting", "stopped">>})
       /\ NoOpCalls]_vars

C12_Witness ==
    /\ Lifecycle = "running"
    /\ \E c \in Callers : result[c] = "already"
    /\ \E c \in Callers : result[c] = "up"

\* C13: with no active server, start() creates no client and leaves
\* is_running() false and the tool list empty; no call fails.
NoServerEnabled == \A s \in Servers : raw_server_configs[s] = Some(TRUE)

C13_NoActiveServers ==
    NoServerEnabled
        => /\ Stopped
           /\ clientStatus = <<>>
           /\ \A c \in Callers : result[c] \in {"none", "no_servers", "not_running"}

C13_Witness ==
    /\ NoServerEnabled
    /\ \E c \in Callers : result[c] = "no_servers" /\ cpc[c] = "idle"
    /\ Stopped

\* C14: stop() is idempotent.  Whenever a stop() has returned the registry is
\* stopped, also when the provider shutdown raised; and a stop() on a stopped
\* registry shuts nothing down and changes nothing.
C14_StopIdempotent ==
    /\ []((order # <<>> /\ lock = NoneV /\ result[LastHolder] \in {"stopped", "not_running"})
             => Stopped)
    /\ [][\A c \in Callers :
             (Acquires(c, "stop") /\ Stopped)
                 => /\ ManagerUnchanged
                    /\ result'[c] = "not_running"
                    /\ cpc'[c] = "idle"]_vars

\* A start, then two stops in a row, the first of which met a failing shutdown.
C14_Witness ==
    /\ Len(calls) = 3
    /\ calls[1].op = "start" /\ calls[2].op = "stop" /\ calls[3].op = "stop"
    /\ \A c \in Callers : cpc[c] = "idle"
    /\ \E c, d \in Callers : result[c] = "stopped" /\ result[d] = "not_running"
    /\ clientStatus = <<"exit_failed">>
    /\ Stopped

\* ------------------------------------------------------------ tool lookup
\* In this step get_tools_for_agent was called with a filter.
LooksUp == lookup' # lookup

Asked == IF lookup'[1].required = NoneV THEN <<>> ELSE lookup'[1].required[1]

\* The names of the capabilities the registry offers when the call is made.
Offered == IF is_running THEN Range(tools) ELSE {}

\* C15 (as claimed): a call with a filter (the empty one included) does not
\* change the registry and returns only capabilities whose names are in the
\* filter; a filter with no known name returns an empty sequence.
C15_FilterReturnsOnlyMatches ==
    [][(LooksUp /\ lookup'[1].required # NoneV)
          => /\ UNCHANGED <<client, tools, is_running, clientStatus>>
             /\ Range(lookup'[1].answer.returned) \subseteq Range(Asked)
             /\ (Range(Asked) \cap Offered = {} => lookup'[1].answer.returned = <<>>)]_vars

\* C16 (as claimed): a warning naming the missing capabilities is emitted
\* whenever a requested name has no capability, and none is emitted when
\* every requested name was found.
C16_WarningIffMissing ==
    [][LooksUp
          => LET absent == Range(Asked) \ Offered
             IN  /\ absent # {} => (lookup'[1].answer.warned
                                    /\ absent \subseteq lookup'[1].answer.missing)
                 /\ absent = {} => ~lookup'[1].answer.warned]_vars

\* --------------------------------------------------------------- sessions
AllIdle == \A r \in Runs : Idle(r)

\* C17 (as claimed): two concurrent runs of one session leave the checkpoint
\* one whole run after the other would leave; in particular, once both have
\* finished the persisted conversation holds one message for each of the
\* session's requests.
C17_SameSessionWritesSerialized ==
    AllIdle => \A s \in Sessions : Len(ckpt[s].messages) = Len(asked[s])

\* C19: a turn that supplies the identifier of an earlier turn sees, in
\* every node, the messages of the earlier turns in order followed by its
\* own, and what is persisted for the session is that same conversation.
C19_SecondTurnSeesHistory ==
    /\ \A r \in Runs : ~Idle(r) => st[r].messages = asked[ThreadOf(r)]
    /\ \A s \in Sessions : ckpt[s].messages = asked[s]

C19_Witness ==
    \E r \in Runs :
        /\ pc[r] = "END"
        /\ trace[r] # <<>>
        /\ asked[ThreadOf(r)] = <<EmptyText, <<"I have a headache">>>>
        /\ st[r].messages = <<EmptyText, <<"I have a headache">>>>

\* C20: the response carries the thread identifier of its run, which is the
\* identifier the request supplied (body field first, cookie second) when
\* there is one, and otherwise a non-empty identifier no request used
\* before; the run's thread does not change while it runs.
C20_SessionIdEchoed ==
    [][\A r \in Runs :
          /\ (request'[r] # request[r] /\ request'[r] # NoneV)
                => LET q == request'[r][1]
                       key == sid'[r][1]
                   IN  \/ TruthyText(q.session_id)
                       \/ TruthyText(q.cookie)
                       \/ /\ key # EmptyText
                          /\ asked[key] = <<>> /\ ckpt[key] = AgentState
                          /\ ckpt'[key] = st'[r]
          /\ (response'[r] # response[r] /\ response'[r] # NoneV)
                => LET q == request[r][1]
                       answered == response'[r].session_id
                   IN  /\ answered = sid[r]
                       /\ answered # NoneV /\ answered[1] # EmptyText
                       /\ TruthyText(q.session_id) => answered = q.session_id
                       /\ (~TruthyText(q.session_id) /\ TruthyText(q.cookie))
                             => answered = q.cookie
          /\ (~Idle(r) /\ ~Idle(r)') => sid'[r] = sid[r]]_vars

C20_Witness ==
    \E r \in Runs :
        /\ response[r] # NoneV
        /\ response[r].session_id = Some(uuid4(2))
        /\ Len(asked[uuid4(2)]) = 1
        /\ Len(asked[<<"s1">>]) = 1

\* ------------------------------------------------------- shape of a run
FinalOutputSet(state) == state.final_output # NoneV

PendingHandoff(state) == Truthy(state.next_supervisor_required)

\* Run r executes the node it is at in this step.
Executes(r, node) == pc[r] = node /\ pc'[r] # node

\* C22 (as claimed): whenever the handoff check is about to run, exactly one
\* of final_output and the pending handoff is set.
C22_ExactlyOneAtHandoffCheck ==
    \A r \in Runs :
        pc[r] = "check_supervisor_handoff"
            => (FinalOutputSet(st[r]) # PendingHandoff(st[r]))

\* C25: the error terminal writes the error text with route_error as its
\* reason, or the generic reason when route_error is absent; the text is
\* not empty and the run is at its end right after the node.
C25_ErrorTerminal ==
    [][\A r \in Runs :
          Executes(r, "handle_error_node")
              => LET reason == IF st[r].route_error # NoneV
                               THEN st[r].route_error[1]
                               ELSE <<"Unknown processing error">>
                 IN  /\ st'[r].final_output
                           = Some(<<"Sorry, I encountered an error. Reason: ">> \o reason)
                     /\ st'[r].final_output[1] # EmptyText
                     /\ trace'[r] = Append(trace[r], "handle_error_node")
                     /\ pc'[r] = "END"]_vars

C25_Witness ==
    \E r \in Runs :
        /\ pc[r] = "END"
        /\ trace[r] = <<"handle_error_node">>
        /\ st[r].route_error = NoneV
        /\ st[r].final_output
              = Some(<<"Sorry, I encountered an error. Reason: ", "Unknown processing error">>)

SchedulingDirect ==
    <<"patient_intent_router", "supervisor_scheduling", "check_supervisor_handoff">>

\* C26: a handoff check that finds no pending handoff leaves final_output
\* as the supervisor wrote it and ends the run, whose response is that
\* final_output; a patient query classified as supervisor_scheduling ends
\* with the scheduling placeholder's text.
C26_NoHandoffKeepsFinalOutput ==
    /\ [](\A r \in Runs :
            (pc[r] = "END" /\ trace[r] = SchedulingDirect)
                => st[r].final_output
                      = Some(<<"Placeholder: Scheduling logic would start here.">>))
    /\ [][\A r \in Runs :
            /\ (Executes(r, "check_supervisor_handoff") /\ ~PendingHandoff(st[r]))
                  => /\ st'[r].final_output = st[r].final_output
                     /\ pc'[r] = "END"
            /\ (Executes(r, "END") /\ LastNode(r) = "check_supervisor_handoff")
                  => /\ response'[r].status = 200
                     /\ response'[r].response = st[r].final_output[1]]_vars

C26_Witness ==
    \E r \in Runs :
        /\ response[r] # NoneV
        /\ response[r].response = <<"Placeholder: Scheduling logic would start here.">>

GateTargets == {"patient_intent_router", "doctor_intent_router", "handle_error_node"}

Routers == {"patient_intent_router", "doctor_intent_router"}

Occurrences(r, nodes) == Cardinality({i \in DOMAIN trace[r] : trace[r][i] \in nodes})

\* The node the role gate picks for the role of run r.
GateTarget(r) ==
    IF st[r].user_role = Some("patient") THEN "patient_intent_router"
    ELSE IF st[r].user_role = Some("doctor") THEN "doctor_intent_router"
    ELSE "handle_error_node"

\* The first node run r executes is the one the role gate picks.
GateFirst(r) ==
    /\ (~Idle(r) /\ trace[r] = <<>>) => pc[r] = GateTarget(r)
    /\ trace[r] # <<>> => trace[r][1] = GateTarget(r)

\* C28 (as claimed): the first node of a run is the one the role gate picks,
\* and in the whole run exactly one of the two routers and the error
\* terminal runs, once.
C28_ExactlyOneGateTargetRuns ==
    \A r \in Runs :
        /\ GateFirst(r)
        /\ pc[r] = "END" => Occurrences(r, GateTargets) = 1

\* C28 (amended): the first node of a run is the one the role gate picks; no
\* router runs later in the run, and the error terminal runs later only as
\* the last node of a run a router began.
C28_GateTargetRunsFirst ==
    \A r \in Runs :
        /\ GateFirst(r)
        /\ \A i \in DOMAIN trace[r] :
              i > 1 => /\ trace[r][i] \notin Routers
                       /\ trace[r][i] = "handle_error_node"
                             => (i = Len(trace[r]) /\ trace[r][1] \in Routers)

C28_Witness ==
    \E r \in Runs :
        /\ pc[r] = "END"
        /\ st[r].user_role = Some("doctor")
        /\ trace[r] = <<"doctor_intent_router", "handle_error_node">>

Supervisors ==
    {"supervisor_patient_general", "supervisor_doctor_general", "supervisor_scheduling",
     "supervisor_summarization", "supervisor_image_analysis"}

\* C29: the node that follows a supervisor is the handoff check.
C29_SupervisorThenHandoffCheck ==
    \A r \in Runs :
        \A i \in DOMAIN trace[r] :
            trace[r][i] \in Supervisors
                => IF i = Len(trace[r])
                   THEN pc[r] = "check_supervisor_handoff"
                   ELSE trace[r][i + 1] = "check_supervisor_handoff"

C29_Witness ==
    \E r \in Runs :
        /\ pc[r] = "END"
        /\ trace[r] = <<"doctor_intent_router", "supervisor_summarization",
                        "check_supervisor_handoff">>

NoNodeTwice(r) ==
    \A i, j \in DOMAIN trace[r] : trace[r][i] = trace[r][j] => i = j

\* C30: every run that started reaches its end, and it gets there without
\* executing any node a second time.
C30_EveryRunTerminates ==
    /\ [](\A r \in Runs : NoNodeTwice(r))
    /\ \A r \in Runs : (~Idle(r)) ~> (pc[r] = "END")

C30_Witness ==
    \E r \in Runs :
        /\ pc[r] = "END"
        /\ InTrace(r, "prepare_for_scheduling")
        /\ LastNode(r) = "check_supervisor_handoff"

\* ------------------------------------------------------------------ faults
\* The router's wait for the classifier was cut short in run r: the call
\* raised (a timeout of the client included) or the task was cancelled.
GatewayInterrupted(r) ==
    gateway[r] # NoneV /\ gateway[r][1].kind \in {"raise", "cancelled"}

\* C23 (as claimed): a run interrupted while it waits for the classifier
\* ends after the error terminal, with the error terminal's final_output,
\* and what is persisted is the state that node left.
C23_InterruptedRunReachesErrorTerminal ==
    \A r \in Runs :
        (GatewayInterrupted(r) /\ pc[r] \in {"END", "cancelled"})
            => /\ LastNode(r) = "handle_error_node"
               /\ st[r].final_output
                     = Some(<<"Sorry, I encountered an error. Reason: ",
                              "LLM intent routing failed: ", "<exception>">>)
               /\ ckpt[ThreadOf(r)] = st[r]

\* C24 (as claimed): a run that raised is answered with a normal response
\* carrying a generic message, without the exception in it.
C24_UnexpectedErrorAnsweredNormally ==
    [][\A r \in Runs :
          Executes(r, "raised")
              => /\ response'[r].status = 200
                 /\ ~Names(response'[r].response, "<exception>")]_vars

\* ------------------------------------------------------------ application
StartupOver == main_graph # "unset"

Admitted(r) == Idle(r) /\ ~Idle(r)'

\* C21: the graph is built once the registry start has returned or raised,
\* however it ended; a built graph takes chat requests and answers them
\* normally whatever the registry's state; and the health answer reports
\* is_running and "graph was built" each for itself.
C21_GraphIndependentOfRegistry ==
    /\ [](StartupOver
            => /\ cpc[lifespan] = "idle"
               /\ result[lifespan] \in {"up", "failed", "no_servers", "raised"})
    /\ [][main_graph' # main_graph => main_graph' \in {"graph", "none"}]_vars
    /\ [][health' # health
            => /\ health'[1].mcp_client = (IF is_running THEN "running" ELSE "stopped")
               /\ health'[1].main_graph
                     = (IF main_graph = "graph" THEN "loaded" ELSE "not loaded")]_vars
    /\ [][\A r \in Runs :
            /\ Admitted(r) => main_graph = "graph"
            /\ (response'[r] # response[r] /\ response'[r] # NoneV)
                  => (response'[r].status = 200 <=> main_graph = "graph")]_vars

C21_Witness ==
    /\ result[lifespan] = "failed"
    /\ ~is_running
    /\ main_graph = "graph"
    /\ health # NoneV
    /\ health[1].mcp_client = "stopped" /\ health[1].main_graph = "loaded"
    /\ \E r \in Runs : response[r] # NoneV /\ response[r].status = 200

\* ---------------------------------------------------------- configuration
\* The value is an override of the form env:NAME.
IsOverride(value) ==
    /\ value.type = "str"
    /\ Len(value.val) >= 4
    /\ <<value.val[1], value.val[2], value.val[3], value.val[4]>> = <<"e", "n", "v", ":">>

\* NAME of env:NAME
OverrideName(value) == [i \in 1..(Len(value.val) - 4) |-> value.val[i + 4]]

Loaded == loader.resolved_servers # NoneV /\ loader.config_file.kind = "ok"

\* C27: the load keeps every server of the file; each env value of the form
\* env:NAME becomes the environment's value of NAME, or "" when NAME is not
\* set; every other env value, and a server without an env object, is kept.
C27_EnvOverridesResolved ==
    Loaded =>
        LET config_data == loader.config_file.config_data
            resolved == loader.resolved_servers[1]
            environ == loader.environ
        IN  /\ DOMAIN resolved = DOMAIN config_data
            /\ \A s \in DOMAIN config_data :
                  /\ resolved[s].command = config_data[s].command
                  /\ resolved[s].env.kind = config_data[s].env.kind
                  /\ DOMAIN resolved[s].env.items = DOMAIN config_data[s].env.items
                  /\ \A key \in DOMAIN config_data[s].env.items :
                        LET value == config_data[s].env.items[key]
                            got == resolved[s].env.items[key]
                            name == OverrideName(value)
                        IN  IF ~IsOverride(value) THEN got = value
                            ELSE IF name \in DOMAIN environ /\ environ[name] # NoneV
                            THEN got = [type |-> "str", val |-> environ[name][1]]
                            ELSE got = [type |-> "str", val |-> <<>>]

C27_Witness ==
    /\ Loaded
    /\ loader.environ[<<"A">>] = NoneV
    /\ loader.environ[<<"B">>] = Some(<<"x">>)
    /\ loader.config_file.config_data["scheduler"].env.kind = "dict"
    /\ DOMAIN loader.config_file.config_data["scheduler"].env.items = {"API_KEY", "MODE"}
    /\ loader.config_file.config_data["scheduler"].env.items["API_KEY"].val
          = <<"e", "n", "v", ":", "A">>
    /\ loader.config_file.config_data["scheduler"].env.items["MODE"].val
          = <<"e", "n", "v", ":", "B">>
    /\ loader.resolved_servers[1]["scheduler"].env.items["API_KEY"].val = <<>>
    /\ loader.resolved_servers[1]["scheduler"].env.items["MODE"].val = <<"x">>

\* ------------------------------------------------- final_output of a run
\* The nodes that write final_output.
OutputWriters ==
    {"prepare_for_scheduling", "finish_conversation", "supervisor_doctor_general",
     "supervisor_scheduling", "supervisor_summarization", "supervisor_image_analysis",
     "handle_error_node"}

\* A node of run r has written final_output.
OutputWritten(r) == \E i \in DOMAIN trace[r] : trace[r][i] \in OutputWriters

\* C31: once a node of a run has written final_output, the nodes that run
\* later in that run leave it as it is, except the error terminal, and none
\* of them but the error terminal is a node that writes it.
C31_FinalOutputWrittenOnce ==
    /\ [](\A r \in Runs :
            \A i, j \in DOMAIN trace[r] :
                (i < j /\ trace[r][i] \in OutputWriters /\ trace[r][j] \in OutputWriters)
                    => trace[r][j] = "handle_error_node")
    /\ [][\A r \in Runs :
            (OutputWritten(r) /\ pc[r] \notin {"idle", "END", "raised"}
                /\ pc[r] # "handle_error_node")
                => st'[r].final_output = st[r].final_output]_vars

C31_Witness ==
    \E r \in Runs :
        /\ pc[r] = "END"
        /\ trace[r] = <<"patient_intent_router", "analyze_patient_query",
                        "prepare_for_scheduling", "supervisor_patient_general",
                        "check_supervisor_handoff">>
        /\ st[r].final_output = Some(<<"Okay, I can help you with scheduling.">>)

\* ------------------------------------------------------- empty user text
\* The latest message of run r's conversation has no text.
LatestEmpty(r) ==
    st[r].messages # <<>> /\ st[r].messages[Len(st[r].messages)] = EmptyText

NoQueryOutput == <<"Sorry, I encountered an error. Reason: ", "No query in state.">>

DoctorOnly ==
    {"supervisor_doctor_general", "supervisor_summarization", "supervisor_image_analysis"}

PatientOnly ==
    {"supervisor_patient_general", "analyze_patient_query", "prepare_for_scheduling",
     "finish_conversation"}

\* The nodes run r has executed or is about to execute.
Visited(r) == {trace[r][i] : i \in DOMAIN trace[r]} \cup {pc[r]}

\* C34: a patient's run executes no supervisor of the doctor's side and a
\* doctor's run does not execute the patient supervisor, in any turn of any
\* session.
C34_RoleIsolation ==
    \A r \in Runs :
        /\ st[r].user_role = Some("patient") => Visited(r) \cap DoctorOnly = {}
        /\ st[r].user_role = Some("doctor") => Visited(r) \cap PatientOnly = {}

\* A patient's turn in a session whose earlier turn was a doctor's: the
\* diagnostic of the doctor's turn is still in the turn state.
C34_Witness ==
    \E r \in Runs :
        /\ pc[r] = "END"
        /\ st[r].user_role = Some("patient")
        /\ InTrace(r, "supervisor_patient_general")
        /\ st[r].route_error
              = Some(<<"Invalid routing target for role '", "doctor", "': ",
                       "supervisor_image_analysis">>)

\* ------------------------------------------------ diagnostic of the turn
\* Run r is at the error terminal and no node of this turn wrote route_error:
\* the role gate sent it there, or the classifier chose handle_error_node.
NoOwnDiagnostic(r) ==
    \/ trace[r] = <<>>
    \/ /\ gateway[r] # NoneV
       /\ gateway[r][1].kind = "resp"
       /\ gateway[r][1].supervisor = Some("handle_error_node")

NewNodes(r) == {trace'[r][i] : i \in (DOMAIN trace'[r]) \ (DOMAIN trace[r])}

FallbackTexts ==
    {<<"error: could not determine final response">>, <<"Sorry, an internal error occurred">>}

\* C39: a run that reaches its end has executed a node that writes
\* final_output; such a node leaves final_output set, no other node touches
\* it, and the response is that final_output, not a fallback text of the
\* chat endpoint.
C39_FinalOutputOfThisRun ==
    /\ [](\A r \in Runs :
            pc[r] = "END" => (OutputWritten(r) /\ st[r].final_output # NoneV))
    /\ [][\A r \in Runs :
            /\ (NewNodes(r) \cap OutputWriters # {}) => st'[r].final_output # NoneV
            /\ (pc[r] \notin {"idle", "END", "raised"} /\ NewNodes(r) \cap OutputWriters = {})
                  => st'[r].final_output = st[r].final_output
            /\ Executes(r, "END")
                  => /\ response'[r].status = 200
                     /\ response'[r].response = st[r].final_output[1]
                     /\ response'[r].response \notin FallbackTexts]_vars

\* The second turn of a session ends with the text its own sub-graph wrote.
C39_Witness ==
    \E r \in Runs :
        /\ pc[r] = "END"
        /\ Len(st[r].messages) = 2
        /\ InTrace(r, "finish_conversation")
        /\ st[r].final_output = Some(<<"I'm not sure how to respond to that">>)

\* ------------------------------------------------ the running flag
\* Caller c is inside start_client's try block or its except branch.
InStart(c) == cpc[c] \in {"start_aenter", "start_sleep", "start_cleanup"}

\* C36 (as claimed): while a start() is in progress, one that will fail
\* included, is_running() is false: it is true only once get_tools() has
\* loaded the tools.
C36_RunningOnlyWhenLoaded ==
    \A c \in Callers : InStart(c) => ~is_running

\* Every start_client and stop_client call made so far has returned.
AllReturned == \A c \in Callers : cpc[c] = "idle"

\* C37: when every call has returned, is_running() is true exactly when a
\* client is held; when it is false the tool list is empty and every tool
\* lookup returns the empty list.
C37_RunningIffClientHeld ==
    AllReturned
        => /\ is_running <=> client # NoneV
           /\ ~is_running
                 => /\ tools = <<>>
                    /\ get_all_tools = <<>>
                    /\ \A required_tool_names \in ToolFilters :
                          get_tools_for_agent(required_tool_names).returned = <<>>

\* A start that brought the servers up with their tools and a stop after it
\* have both returned.
C37_Witness ==
    /\ AllReturned
    /\ Len(calls) = 2
    /\ calls[1].op = "start" /\ calls[2].op = "stop"
    /\ clientStatus = <<"exited">>
    /\ ~is_running
    /\ client = NoneV

\* ------------------------------------------------ bring-up and shut-down
\* The clients that are up: __aenter__ succeeded, __aexit__ was not called.
Up == {k \in DOMAIN clientStatus : clientStatus[k] = "entered"}

\* At most one client is up, and it is the one the manager holds: no client
\* is brought up while another is up, and none that is up is dropped.
UpIsHeld == Cardinality(Up) <= 1 /\ \A k \in Up : client = Some(k)

\* C38 (as claimed): __aexit__ is called only on a client whose __aenter__
\* succeeded; no client is brought up while another is up; no client that
\* is up is dropped.
C38_BringUpShutDownBalanced ==
    /\ \A k \in DOMAIN clientStatus : clientStatus[k] # "aborted"
    /\ UpIsHeld

\* What can happen to a client, step by step.
ClientSteps ==
    {<<"created", "entered">>, <<"created", "enter_failed">>,
     <<"enter_failed", "aborted">>,
     <<"entered", "exited">>, <<"entered", "exit_failed">>}

\* C38 (amended): __aexit__ is called on a client once, after its __aenter__
\* succeeded or, as the roll-back of the start, after its __aenter__ raised,
\* and never on a client that was not entered at all; no client is brought
\* up while another is up; no client that is up is dropped.
C38_BalancedWithRollback ==
    /\ []UpIsHeld
    /\ [][/\ \A k \in DOMAIN clientStatus :
                clientStatus'[k] # clientStatus[k]
                    => <<clientStatus[k], clientStatus'[k]>> \in ClientSteps
          /\ Len(clientStatus') > Len(clientStatus)
                => /\ Up = {}
                   /\ clientStatus' = Append(clientStatus, "created")]_vars

\* A bring-up that failed and was rolled back, then one that succeeded and
\* was shut down by stop().
C38_Witness ==
    /\ clientStatus = <<"aborted", "exited">>
    /\ AllReturned
    /\ client = NoneV

\* ------------------------------------------------------ cancelled start
\* C33 (as claimed): a start() cancelled after the servers were brought up
\* has released the lock and left the registry either stopped or running
\* with its tools, and a start() called after it does not return with the
\* registry running without tools.
C33_CancelledStartRetryable ==
    /\ \A c \in Callers : (cpc[c] = "idle" /\ result[c] = "cancelled") => lock # Some(c)
    /\ (order # <<>> /\ lock = NoneV /\ result[LastHolder] = "cancelled")
          => (Stopped \/ (is_running /\ client # NoneV /\ tools # <<>>))
    /\ (\E c \in Callers : result[c] = "cancelled")
          => \A d \in Callers :
                (cpc[d] = "idle" /\ result[d] = "already")
                    => (is_running /\ tools # <<>>)

\* ------------------------------------------------------ classifier cache
InitFailedOutput ==
    <<"Sorry, I encountered an error. Reason: ", "Intent Router init failed.">>

\* Run r's router calls get_llm in this step: it runs and has a query.
CallsGetLlm(r) == pc[r] \in Routers /\ pc'[r] # pc[r] /\ ~LatestEmpty(r)

====
